---- MODULE Spec2Model ----
(***************************************************************************)
(* Model of src/src/polynomial.rs: Polynomial over a prime field, with     *)
(* random construction, degree, coefficients, eval (zero shortcut plus     *)
(* Horner's loop) and lagrange_basis_at_0.                                 *)
(*                                                                         *)
(* The field element type (amcl_wrapper FieldElement) is an external       *)
(* collaborator; it is modelled as the integers modulo the prime P, with   *)
(* the contract the specification gives for it (section 6).                *)
(***************************************************************************)
EXTENDS Integers, Sequences, FiniteSets

VARIABLES pc, poly, degree_arg, x_arg, res, idx, result,
          x_coords, li, rest, numerator, denominator

vars == <<pc, poly, degree_arg, x_arg, res, idx, result,
          x_coords, li, rest, numerator, denominator>>

-----------------------------------------------------------------------------
(* Bounds of the model. *)

\* Largest degree passed to Polynomial::random.
MaxDegree == 1

\* x-coordinates are drawn from 0..MaxCoord and from P..P+MaxCoord (the
\* latter collide with the former after conversion to the field).
MaxCoord == 2

\* Largest number of x-coordinates handed to lagrange_basis_at_0.
MaxNodes == 3

-----------------------------------------------------------------------------
(* The field-element collaborator: integers modulo the prime P. *)

P == 17

FieldElements == 0 .. (P - 1)

zero == 0

one == 1

is_zero(a) == a = zero

\* FieldElement::from(u64): the integer reduced into the field.
FromU64(n) == n % P

Add(a, b) == (a + b) % P

Mul(a, b) == (a * b) % P

Neg(a) == (P - a) % P

\* Outcome of a call: a returned field element, or a panic (no value).
Ok(v) == [tag |-> "ok", val |-> v]

Panic == [tag |-> "panic", val |-> 0]

NoResult == [tag |-> "none", val |-> 0]

\* inverse_mut: the multiplicative inverse, defined for non-zero elements;
\* inverting zero fails (arithmetic singularity).
inverse(a) ==
    IF is_zero(a) THEN Panic
    ELSE Ok(CHOOSE b \in FieldElements : Mul(a, b) = one)

-----------------------------------------------------------------------------
(* Polynomial: construction, degree, coefficients. *)

\* Faulty variant: the + 1 for the constant term is forgotten.
random_without_constant_term(d) == [1 .. d -> FieldElements]

\* Polynomial::random(degree): degree + 1 coefficients, each any field
\* element.  The set of polynomials the call can return.
random(d) == [1 .. (d + 1) -> FieldElements]

\* Polynomial::degree: len - 1.
degree(p) == Len(p) - 1

\* Polynomial::coefficients: the coefficient vector, lowest degree first
\* (Rust index k is TLA+ index k + 1).
coefficients(p) == p

-----------------------------------------------------------------------------
(* Polynomial::eval. *)

\* One iteration of Horner's loop: res = res * x + coefficient.
horner_step(r, x, c) == Add(Mul(r, x), c)

RECURSIVE horner_loop(_, _, _, _)
\* for i in (0..=len-2).rev(), from Rust index k down to 0.
horner_loop(p, x, r, k) ==
    LET r2 == horner_step(r, x, p[k + 1])
    IN  IF k = 0 THEN r2 ELSE horner_loop(p, x, r2, k - 1)

\* The else branch of eval.  With fewer than two coefficients the usize
\* expression len - 2 underflows: a build with overflow checks panics at the
\* subtraction, a build without them wraps to usize::MAX and panics on the
\* first index self.0[usize::MAX].  Both builds panic.
horner(p, x) ==
    IF Len(p) < 2 THEN Panic
    ELSE Ok(horner_loop(p, x, p[Len(p)], Len(p) - 2))

eval(p, x) ==
    IF is_zero(x)
    THEN IF Len(p) = 0 THEN Panic ELSE Ok(coefficients(p)[1])
    ELSE horner(p, x)

-----------------------------------------------------------------------------
(* Polynomial::lagrange_basis_at_0. *)

\* Faulty variant: the numerator starts at zero instead of one.
lagrange_init_zero_numerator == [numerator |-> zero, denominator |-> one]

\* numerator and denominator before the loop.
lagrange_init == [numerator |-> one, denominator |-> one]

\* Faulty variant: the term x == i is not skipped.
lagrange_loop_body_no_skip(num, den, x, i) ==
    [numerator   |-> Mul(num, FromU64(x)),
     denominator |-> Mul(den, Add(FromU64(x), Neg(FromU64(i))))]

\* Faulty variant: the numerator is assigned x instead of multiplied by it.
lagrange_loop_body_overwrite(num, den, x, i) ==
    IF x = i THEN [numerator |-> num, denominator |-> den]
    ELSE [numerator   |-> FromU64(x),
          denominator |-> Mul(den, Add(FromU64(x), Neg(FromU64(i))))]

\* Faulty variant: the skip compares field elements instead of integers.
lagrange_loop_body_skip_congruent(num, den, x, i) ==
    IF FromU64(x) = FromU64(i) THEN [numerator |-> num, denominator |-> den]
    ELSE [numerator   |-> Mul(num, FromU64(x)),
          denominator |-> Mul(den, Add(FromU64(x), Neg(FromU64(i))))]

\* Faulty variant: the negation of i is forgotten (x + i for x - i).
lagrange_loop_body_plus_i(num, den, x, i) ==
    IF x = i THEN [numerator |-> num, denominator |-> den]
    ELSE [numerator   |-> Mul(num, FromU64(x)),
          denominator |-> Mul(den, Add(FromU64(x), FromU64(i)))]

\* One iteration of the loop over x_coords: the term x == i (compared as
\* integers) is skipped; otherwise numerator *= x, denominator *= (x - i).
lagrange_loop_body(num, den, x, i) ==
    IF x = i THEN [numerator |-> num, denominator |-> den]
    ELSE LET i_as_field_elem == FromU64(i)
             neg_i           == Neg(i_as_field_elem)
             x_as_field_elem == FromU64(x)
             x_minus_i       == Add(x_as_field_elem, neg_i)
         IN  [numerator   |-> Mul(num, x_as_field_elem),
              denominator |-> Mul(den, x_minus_i)]

RECURSIVE lagrange_fold(_, _, _)
\* The loop run over one enumeration order of the set.
lagrange_fold(acc, order, i) ==
    IF order = <<>> THEN acc
    ELSE lagrange_fold(
             lagrange_loop_body(acc.numerator, acc.denominator, Head(order), i),
             Tail(order), i)

\* denominator.inverse_mut(); numerator * denominator
lagrange_finish(acc) ==
    LET inv == inverse(acc.denominator)
    IN  IF inv.tag = "ok" THEN Ok(Mul(acc.numerator, inv.val)) ELSE Panic

\* lagrange_basis_at_0 with the HashSet iterated in the order `order`.
lagrange_basis_at_0(order, i) ==
    lagrange_finish(lagrange_fold(lagrange_init, order, i))

\* The enumeration orders of a set (a HashSet has no defined order).
Orders(S) ==
    {s \in [1 .. Cardinality(S) -> S] :
        \A a, b \in 1 .. Cardinality(S) : a # b => s[a] # s[b]}

-----------------------------------------------------------------------------
(* Secret reconstruction from shares, as a caller combines eval and        *)
(* lagrange_basis_at_0: the sum over i in S of p.eval(i) * basis(S, i).    *)

RECURSIVE reconstruct_sum(_, _, _)
\* The sum over the first k coordinates of `order`; a panic in any call
\* aborts the whole computation.
reconstruct_sum(p, order, k) ==
    IF k = 0 THEN Ok(zero)
    ELSE LET prev  == reconstruct_sum(p, order, k - 1)
             share == eval(p, FromU64(order[k]))
             basis == lagrange_basis_at_0(order, order[k])
         IN  IF prev.tag = "ok" /\ share.tag = "ok" /\ basis.tag = "ok"
             THEN Ok(Add(prev.val, Mul(share.val, basis.val)))
             ELSE Panic

reconstruct(p, order) == reconstruct_sum(p, order, Len(order))

-----------------------------------------------------------------------------
(* Inputs. *)

Degrees == 0 .. MaxDegree

\* usize coordinates below the field prime, and ones at or above it.
XCoordInputs == (0 .. MaxCoord) \cup {P + k : k \in 0 .. MaxCoord}

NodeSets == {S \in SUBSET XCoordInputs : Cardinality(S) <= MaxNodes}

\* Share coordinates for reconstruction: distinct, non-zero, below P.
ShareSets == SUBSET (1 .. MaxNodes)

-----------------------------------------------------------------------------
(* State machine. *)

NoEvalFrame == x_arg = zero /\ res = zero /\ idx = 0

NoLagrangeFrame ==
    /\ x_coords = {} /\ li = 0 /\ rest = {}
    /\ numerator = one /\ denominator = one

\* A polynomial exists only through Polynomial::random.
Init ==
    /\ pc = "idle"
    /\ degree_arg \in Degrees
    /\ poly \in random(degree_arg)
    /\ result = NoResult
    /\ NoEvalFrame
    /\ NoLagrangeFrame

\* Only lagrange_basis_at_0 (an associated function, no self) is called; the
\* polynomial is the fixed p(x) = 3 + 5x.
InitLagrange ==
    /\ pc = "idle"
    /\ degree_arg = 1
    /\ poly = <<3, 5>>
    /\ result = NoResult
    /\ NoEvalFrame
    /\ NoLagrangeFrame

\* let poly = Polynomial::random(d)
Random(d) ==
    /\ pc = "idle"
    /\ degree_arg' = d
    /\ poly' \in random(d)
    /\ pc' = "random_done"
    /\ UNCHANGED <<x_arg, res, idx, result, x_coords, li, rest,
                   numerator, denominator>>

\* eval(x) with x.is_zero(): the constant term is returned directly.
EvalAtZero(x) ==
    /\ pc = "idle"
    /\ is_zero(x)
    /\ x_arg' = x
    /\ result' = IF Len(poly) = 0 THEN Panic ELSE Ok(coefficients(poly)[1])
    /\ pc' = "eval_done"
    /\ UNCHANGED <<poly, degree_arg, res, idx, x_coords, li, rest,
                   numerator, denominator>>

\* eval(x), x non-zero, at least two coefficients: res = a_n and the loop
\* index starts at len - 2.
EvalHornerBegin(x) ==
    /\ pc = "idle"
    /\ ~is_zero(x)
    /\ Len(poly) >= 2
    /\ x_arg' = x
    /\ res' = poly[Len(poly)]
    /\ idx' = Len(poly) - 2
    /\ pc' = "eval_loop"
    /\ UNCHANGED <<poly, degree_arg, result, x_coords, li, rest,
                   numerator, denominator>>

\* eval(x), x non-zero, fewer than two coefficients: len - 2 underflows and
\* the call panics (at the subtraction, or at the index usize::MAX).
EvalHornerUnderflow(x) ==
    /\ pc = "idle"
    /\ ~is_zero(x)
    /\ Len(poly) < 2
    /\ x_arg' = x
    /\ result' = Panic
    /\ pc' = "eval_done"
    /\ UNCHANGED <<poly, degree_arg, res, idx, x_coords, li, rest,
                   numerator, denominator>>

\* One iteration of Horner's loop; after index 0 the accumulator is returned.
EvalHornerStep ==
    /\ pc = "eval_loop"
    /\ res' = horner_step(res, x_arg, poly[idx + 1])
    /\ IF idx = 0
       THEN /\ result' = Ok(res')
            /\ pc' = "eval_done"
            /\ idx' = idx
       ELSE /\ idx' = idx - 1
            /\ UNCHANGED <<result, pc>>
    /\ UNCHANGED <<poly, degree_arg, x_arg, x_coords, li, rest,
                   numerator, denominator>>

\* A caller reconstructs p(0) from the shares at the coordinates S, one
\* share per coefficient, iterating S in some order.
Reconstruct(S) ==
    /\ pc = "idle"
    /\ Cardinality(S) = Len(poly)
    /\ x_coords' = S
    /\ \E order \in Orders(S) : result' = reconstruct(poly, order)
    /\ pc' = "recon_done"
    /\ UNCHANGED <<poly, degree_arg, x_arg, res, idx, li, rest,
                   numerator, denominator>>

\* lagrange_basis_at_0(x_coords, i): numerator = denominator = one.
LagrangeCall(S, i) ==
    /\ pc = "idle"
    /\ x_coords' = S
    /\ li' = i
    /\ rest' = S
    /\ numerator' = lagrange_init.numerator
    /\ denominator' = lagrange_init.denominator
    /\ pc' = "lag_loop"
    /\ UNCHANGED <<poly, degree_arg, x_arg, res, idx, result>>

\* for x in x_coords: the HashSet yields its elements in any order.
LagrangeIter ==
    /\ pc = "lag_loop"
    /\ \E x \in rest :
          LET acc == lagrange_loop_body(numerator, denominator, x, li)
          IN  /\ numerator' = acc.numerator
              /\ denominator' = acc.denominator
              /\ rest' = rest \ {x}
    /\ UNCHANGED <<pc, poly, degree_arg, x_arg, res, idx, result,
                   x_coords, li>>

\* denominator.inverse_mut(), on a non-zero denominator.
LagrangeInvert ==
    /\ pc = "lag_loop"
    /\ rest = {}
    /\ inverse(denominator).tag = "ok"
    /\ denominator' = inverse(denominator).val
    /\ pc' = "lag_inverted"
    /\ UNCHANGED <<poly, degree_arg, x_arg, res, idx, result,
                   x_coords, li, rest, numerator>>

\* denominator.inverse_mut(), on the field's zero: the inversion fails.
LagrangeInvertZero ==
    /\ pc = "lag_loop"
    /\ rest = {}
    /\ inverse(denominator).tag = "panic"
    /\ result' = Panic
    /\ pc' = "lag_done"
    /\ UNCHANGED <<poly, degree_arg, x_arg, res, idx,
                   x_coords, li, rest, numerator, denominator>>

\* numerator * denominator
LagrangeReturn ==
    /\ pc = "lag_inverted"
    /\ result' = Ok(Mul(numerator, denominator))
    /\ pc' = "lag_done"
    /\ UNCHANGED <<poly, degree_arg, x_arg, res, idx,
                   x_coords, li, rest, numerator, denominator>>

\* The caller takes the result; the call's locals are dropped.
Return ==
    /\ pc \in {"random_done", "eval_done", "recon_done", "lag_done"}
    /\ pc' = "idle"
    /\ result' = NoResult
    /\ x_arg' = zero /\ res' = zero /\ idx' = 0
    /\ x_coords' = {} /\ li' = 0 /\ rest' = {}
    /\ numerator' = one /\ denominator' = one
    /\ UNCHANGED <<poly, degree_arg>>

Next ==
    \/ \E d \in Degrees : Random(d)
    \/ \E x \in FieldElements : EvalAtZero(x)
    \/ \E x \in FieldElements : EvalHornerBegin(x)
    \/ \E x \in FieldElements : EvalHornerUnderflow(x)
    \/ EvalHornerStep
    \/ \E S \in ShareSets : Reconstruct(S)
    \/ Return

NextLagrange ==
    \/ \E S \in NodeSets : \E i \in XCoordInputs : LagrangeCall(S, i)
    \/ LagrangeIter
    \/ LagrangeInvert
    \/ LagrangeInvertZero
    \/ LagrangeReturn
    \/ Return

Spec == Init /\ [][Next]_vars

SpecLagrange == InitLagrange /\ [][NextLagrange]_vars

-----------------------------------------------------------------------------
(* Consistency of the step-wise model with the operators. *)

TypeOK ==
    /\ pc \in {"idle", "random_done", "eval_loop", "eval_done", "recon_done",
               "lag_loop", "lag_inverted", "lag_done"}
    /\ poly \in Seq(FieldElements)
    /\ degree_arg \in Degrees
    /\ x_arg \in FieldElements /\ res \in FieldElements
    /\ idx \in 0 .. MaxDegree
    /\ result.tag \in {"ok", "panic", "none"} /\ result.val \in FieldElements
    /\ numerator \in FieldElements /\ denominator \in FieldElements
    /\ rest \subseteq x_coords

EvalStepsAgreeWithEval ==
    pc = "eval_done" => result = eval(poly, x_arg)

-----------------------------------------------------------------------------
(* Reference values, computed with plain integer arithmetic. *)

RECURSIVE CoefficientSum(_)
CoefficientSum(p) ==
    IF p = <<>> THEN 0 ELSE (Head(p) + CoefficientSum(Tail(p))) % P

RECURSIVE Power(_, _)
Power(x, k) == IF k = 0 THEN 1 ELSE (x * Power(x, k - 1)) % P

RECURSIVE NaiveSumUpTo(_, _, _)
\* Sum over Rust indices 0..k-1 of coeff * x^index.
NaiveSumUpTo(p, x, k) ==
    IF k = 0 THEN 0
    ELSE (NaiveSumUpTo(p, x, k - 1) + p[k] * Power(x, k - 1)) % P

NaiveSum(p, x) == NaiveSumUpTo(p, x, Len(p))

RECURSIVE ProductOfCoords(_)
\* Product of x over x in S, in the field.
ProductOfCoords(S) ==
    IF S = {} THEN 1
    ELSE LET x == CHOOSE y \in S : TRUE
         IN  ((x % P) * ProductOfCoords(S \ {x})) % P

RECURSIVE ProductOfDifferences(_, _)
\* Product of (x - i) over x in S, in the field.
ProductOfDifferences(S, i) ==
    IF S = {} THEN 1
    ELSE LET x == CHOOSE y \in S : TRUE
         IN  ((((x % P) + P - (i % P)) % P) * ProductOfDifferences(S \ {x}, i)) % P

InverseOf(a) == CHOOSE b \in 1 .. (P - 1) : (a * b) % P = 1

InLagrangeCall == pc \in {"lag_loop", "lag_inverted", "lag_done"}

DistinctInField(S) == \A a, b \in S : a # b => a % P # b % P

CongruentToI == \E x \in x_coords : x # li /\ x % P = li % P

BelowPrime == li < P /\ \A x \in x_coords : x < P

-----------------------------------------------------------------------------
(* Claims. *)

\* C1: reconstruction.  For every polynomial p of degree t and every set S of
\* t + 1 distinct non-zero coordinates below P, the sum over i in S of
\* p.eval(i) * lagrange_basis_at_0(S, i) equals p.eval(0).
ReconstructionYieldsSecret ==
    pc = "recon_done" => result = eval(poly, zero)

\* The same statement for degree >= 1 only.
ReconstructionYieldsSecretFromDegreeOne ==
    (pc = "recon_done" /\ degree(poly) >= 1) => result = eval(poly, zero)

\* C2: for every polynomial, the degree-0 one included, p.eval(one) returns
\* the field sum of all coefficients.
EvalAtOneIsCoefficientSum ==
    (pc = "eval_done" /\ x_arg = one) => result = Ok(CoefficientSum(poly))

\* C3: for every polynomial with at least one coefficient and every field
\* point x, eval(x) returns the naive sum of coeff_k * x^k.
EvalEqualsNaiveSum ==
    pc = "eval_done" => result = Ok(NaiveSum(poly, x_arg))

\* The same statement for degree >= 1 only.
EvalEqualsNaiveSumFromDegreeOne ==
    (pc = "eval_done" /\ degree(poly) >= 1) => result = Ok(NaiveSum(poly, x_arg))

\* C4: for every polynomial, p.eval(zero) returns the constant term, and the
\* general Horner computation gives the same value at x = 0.
EvalAtZeroIsConstantTerm ==
    (pc = "eval_done" /\ is_zero(x_arg)) =>
        /\ result = Ok(coefficients(poly)[1])
        /\ horner(poly, x_arg) = result

\* The first half of C4 alone: the zero shortcut returns the constant term.
EvalAtZeroShortcutIsConstantTerm ==
    (pc = "eval_done" /\ is_zero(x_arg)) => result = Ok(coefficients(poly)[1])

\* C5: random(d) yields exactly d + 1 coefficients, never an empty sequence,
\* and degree() on it returns d.
RandomHasDegreePlusOneCoefficients ==
    /\ Len(poly) = degree_arg + 1
    /\ poly # <<>>
    /\ degree(poly) = degree_arg

RandomWitness ==
    pc = "random_done" /\ degree_arg = MaxDegree /\ Len(poly) = MaxDegree + 1

\* C6: every enumeration order of the same x_coords gives the same result
\* as the order the call iterated in.
LagrangeOrderIndependent ==
    pc = "lag_done" =>
        \A s \in Orders(x_coords) : lagrange_basis_at_0(s, li) = result

LagrangeOrderWitness ==
    /\ pc = "lag_done"
    /\ Cardinality(x_coords \ {li}) >= 2
    /\ result.tag = "ok"
    /\ result.val # zero

\* C7: with coordinates distinct in the field and none other than i
\* congruent to i, the result is (product of x) * (product of (x - i))^-1
\* over the x # i, whether or not i is in x_coords; {1,2}, i = 1 gives 2.
LagrangeBasisIsProductQuotient ==
    /\ (pc = "lag_done" /\ DistinctInField(x_coords) /\ ~CongruentToI) =>
          result = Ok((ProductOfCoords(x_coords \ {li})
                       * InverseOf(ProductOfDifferences(x_coords \ {li}, li))) % P)
    /\ (pc = "lag_done" /\ x_coords = {1, 2} /\ li = 1) => result = Ok(2)

LagrangeBasisWitness ==
    pc = "lag_done" /\ x_coords = {1, 2} /\ li = 1 /\ result = Ok(2)

\* C8: with x_coords empty or {i}, every term is skipped, numerator and
\* denominator stay 1 and the call returns 1.
DegenerateBasisIsOne ==
    (InLagrangeCall /\ x_coords \subseteq {li}) =>
        /\ numerator = one
        /\ denominator = one
        /\ (pc = "lag_done" => result = Ok(one))

DegenerateBasisWitness ==
    pc = "lag_done" /\ x_coords = {li} /\ rest = {} /\ result = Ok(one)

\* C9: when some x # i converts to the same field element as i, the
\* denominator reaching the inversion is zero, the inversion fails and the
\* call returns no field element.
ZeroDenominatorFailsAtInversion ==
    (InLagrangeCall /\ CongruentToI) =>
        /\ (pc = "lag_loop" /\ rest = {}) => denominator = zero
        /\ pc # "lag_inverted"
        /\ pc = "lag_done" => result = Panic

ZeroDenominatorWitness ==
    pc = "lag_done" /\ CongruentToI /\ li \in x_coords /\ result = Panic

\* C10: with all coordinates and i below the prime, the denominator is
\* non-zero at every step of the loop and at the inversion, so zero is
\* never inverted.
DenominatorNeverZero ==
    (InLagrangeCall /\ BelowPrime) =>
        /\ denominator # zero
        /\ pc = "lag_done" => result.tag = "ok"

DenominatorWitness ==
    /\ pc = "lag_loop" /\ rest = {}
    /\ BelowPrime /\ li \in x_coords /\ Cardinality(x_coords) = 3
    /\ denominator # zero

====
